---- MODULE Spec2Model ----
(***************************************************************************)
(* Care Circles: the background job runner (app/services/job_runner.py)    *)
(* driving the five-stage agent pipeline                                   *)
(* (app/observability/instrumented_orchestrator.py wrapping                *)
(* app/services/agent_orchestrator.py), as called by the request-creation  *)
(* route (app/api/routes/care_requests.py).                                *)
(* The task service (app/services/task_service.py) over its                *)
(* repositories is modelled beside it, under TaskSpec.                     *)
(*                                                                         *)
(* Text is a sequence of one-character strings, so that str.lower() and    *)
(* the substring test "x in s" are computed, not assumed.  An exception    *)
(* is a record [type, msg]; str(e) is its msg, a sequence of message       *)
(* fragments (empty for an exception raised without a message).            *)
(***************************************************************************)
EXTENDS Integers, Sequences, FiniteSets, TLC

\* ------------------------------------------------------------------ bounds

\* Jobs enqueued in the multi-job scenario of Spec.
MaxJobs == 2

\* Longest task array a stage response carries in the detailed scenario.
MaxItems == 2

\* ------------------------------------------------------- program constants

\* ThreadPoolExecutor(max_workers=4)
max_workers == 4

\* The pipeline stages A1..A5, in the order run_pipeline_sync runs them.
NumStages == 5

Stages == 1..NumStages

AgentLabel(k) == <<"A1", "A2", "A3", "A4", "A5">>[k]

AgentTitle(k) ==
    <<"Agent A1 (Intake & Needs Analysis)", "Agent A2 (Task Generation)",
      "Agent A3 (Guardian & Quality Pass)", "Agent A4 (Optimization)",
      "Agent A5 (Review Packet Assembly)">>[k]

ExpectedShape(k) ==
    <<"Expected JSON object with 'summary', 'identified_needs', 'risks', and 'assumptions' fields.",
      "Expected JSON array of task objects with 'title', 'description', 'category', and 'priority' fields.",
      "Expected JSON object with 'tasks' array and optional 'review_notes' field.",
      "Expected JSON object with 'tasks' array and optional 'optimization_notes' field.",
      "Expected JSON object with 'summary', 'draft_tasks', 'agent_notes', and 'approval_status' fields.">>[k]

\* ------------------------------------------------------------ Python values

None == [some |-> FALSE]

Some(v) == [some |-> TRUE, val |-> v]

Ok(v) == [ok |-> TRUE, val |-> v]

Raise(type, msg) == [ok |-> FALSE, exc |-> [type |-> type, msg |-> msg]]

\* name = value, then the statements that read name: the value is computed
\* once, where the assignment stands.
Local(value, Rest(_)) == CHOOSE out \in { Rest(name) : name \in { value } } : TRUE

\* str.lower() on one character (the letters the model's texts use).
LowerChar(c) ==
    CASE c = "R" -> "r"
      [] c = "H" -> "h"
      [] c = "I" -> "i"
      [] c = "G" -> "g"
      [] c = "L" -> "l"
      [] c = "O" -> "o"
      [] c = "W" -> "w"
      [] c = "M" -> "m"
      [] OTHER -> c

\* str.lower()
Lower(s) == [i \in 1..Len(s) |-> LowerChar(s[i])]

\* Python's "sub in s" on strings.
Contains(sub, s) ==
    \E i \in 1..(Len(s) - Len(sub) + 1) : SubSeq(s, i, i + Len(sub) - 1) = sub

\* str.strip() on the characters the model uses (blank is " ").
RECURSIVE Strip(_)
Strip(s) ==
    IF s = <<>> THEN s
    ELSE IF Head(s) = " " THEN Strip(Tail(s))
    ELSE IF s[Len(s)] = " " THEN Strip(SubSeq(s, 1, Len(s) - 1))
    ELSE s

\* A JSON member of string type, of another type (null, number, ...), or absent.
Absent == [k |-> "absent", s |-> <<>>]

Str(s) == [k |-> "str", s |-> s]

Other == [k |-> "other", s |-> <<>>]

\* A JSON member holding an array of task items, something else, or absent.
NoArray == [k |-> "absent", items |-> <<>>]

Array(items) == [k |-> "list", items |-> items]

NotArray == [k |-> "other", items |-> <<>>]

\* One element of a task array: a JSON object with its members, or not an object.
TaskObj(title, priority, category) ==
    [k |-> "dict", title |-> title, priority |-> priority, category |-> category]

NotObj == [k |-> "other", title |-> Absent, priority |-> Absent, category |-> Absent]

\* The JSON value json.loads returns: an array, or an object with the members
\* the parsers read.
JList(items) ==
    [t |-> "list", items |-> items, tasks |-> NoArray, draft_tasks |-> NoArray,
     summary |-> Absent, identified_needs |-> "absent",
     suggested_plan_name |-> Absent, agent_notes |-> Absent]

JDict(tasks, draft_tasks, summary, needs, name) ==
    [t |-> "dict", items |-> <<>>, tasks |-> tasks, draft_tasks |-> draft_tasks,
     summary |-> summary, identified_needs |-> needs,
     suggested_plan_name |-> name, agent_notes |-> Absent]

\* ------------------------------------------------------- response parsing

\* str(crew.kickoff()): the raw text, a sequence of pieces, each with the white
\* space around it.  Doc(j) is the text of the JSON value j, from its opening
\* brace or bracket to the closing one; Junk is "{oops}", braces around no
\* JSON; Words is prose without brace, bracket or backtick; Fence(tag) is a
\* line of three backticks followed by tag ("" for none).
Doc(j) == [p |-> "doc", tag |-> "", val |-> j]

Junk == [p |-> "junk", tag |-> "", val |-> JList(<<>>)]

Words == [p |-> "words", tag |-> "", val |-> JList(<<>>)]

Fence(tag) == [p |-> "fence", tag |-> tag, val |-> JList(<<>>)]

\* The character a piece starts with when it is '{' or '[' (it then ends with
\* the matching '}' or ']'), "" otherwise.
Bracket(piece) ==
    IF piece.p = "junk" THEN "{"
    ELSE IF piece.p = "doc" THEN (IF piece.val.t = "dict" THEN "{" ELSE "[")
    ELSE ""

\* text_stripped.startswith('{') or text_stripped.startswith('[')
startswith(text) == text # <<>> /\ Bracket(text[1]) # ""

\* json.loads raised JSONDecodeError
NoParse == [ok |-> FALSE, val |-> JList(<<>>)]

\* json.loads(text_stripped): a value when the text is one JSON document and
\* nothing else.
json_loads(text) ==
    IF Len(text) = 1 /\ text[1].p = "doc" THEN [ok |-> TRUE, val |-> text[1].val]
    ELSE NoParse

\* What re.search and the json.loads of its group give for one pattern.
NoMatch == [m |-> "nomatch", val |-> JList(<<>>)]

BadMatch == [m |-> "invalid", val |-> JList(<<>>)]

Match(j) == [m |-> "valid", val |-> j]

\* The lazy group (\{.*?\}|\[.*?\]) opened at piece i + 1 can end at piece m:
\* m ends with the bracket closing the one piece i + 1 starts with, and only
\* white space separates it from the next three backticks.
Closes(text, i, m) ==
    /\ m < Len(text)
    /\ Bracket(text[m]) = Bracket(text[i + 1])
    /\ text[m + 1].p = "fence"

\* The pattern matches from piece i: the backticks with the pattern's tag, white
\* space, an opening brace or bracket, and somewhere later a closing one
\* followed by backticks.
Opens(text, tag, i) ==
    /\ text[i] = Fence(tag)
    /\ i < Len(text)
    /\ Bracket(text[i + 1]) # ""
    /\ \E m \in (i + 1)..Len(text) : Closes(text, i, m)

\* re.search(pattern, text, re.DOTALL) for r'```<tag>\s*(\{.*?\}|\[.*?\])\s*```'
\* and json.loads(match.group(1)): the leftmost match, its group ending at the
\* first place it can; the group is JSON only when it is one document.
re_search(tag, text) ==
    IF \A i \in 1..Len(text) : ~Opens(text, tag, i) THEN NoMatch
    ELSE LET i == CHOOSE x \in 1..Len(text) :
                      Opens(text, tag, x) /\ \A y \in 1..(x - 1) : ~Opens(text, tag, y)
             m == CHOOSE x \in (i + 1)..Len(text) :
                      Closes(text, i, x) /\ \A y \in (i + 1)..(x - 1) : ~Closes(text, i, y)
         IN  IF m = i + 1 /\ text[m].p = "doc" THEN Match(text[m].val) ELSE BadMatch

_extract_json(text) ==
    IF startswith(text) /\ json_loads(text).ok THEN Ok(json_loads(text).val)
    ELSE IF re_search("json", text).m = "valid" THEN Ok(re_search("json", text).val)
    ELSE IF re_search("", text).m = "valid" THEN Ok(re_search("", text).val)
    ELSE Raise("ValueError",
               <<"No valid JSON found in agent response.",
                 "Response must be valid JSON only.", "Got: text[:200]...">>)

\* except (ValueError, json.JSONDecodeError, KeyError) as e
Caught(exc) == exc.type \in {"ValueError", "KeyError"}

\* raise ValueError(f"Agent Ak (...) failed to return valid JSON. Expected ... Error: {str(e)}")
StageError(k, exc) ==
    Raise("ValueError",
          <<AgentTitle(k), "failed to return valid JSON.", ExpectedShape(k), "Error:">>
              \o exc.msg)

\* The except clause closing each parser: a caught exception is re-raised with
\* the stage's message, any other propagates as it is.
Rewrap(k, body) ==
    Local(body, LAMBDA r : IF ~r.ok /\ Caught(r.exc) THEN StageError(k, r.exc) ELSE r)

\* priority_text = task_data.get('priority', 'medium').lower(), then the
\* "high" / "low" / else mapping to TaskPriority.
MapPriority(priority) ==
    IF priority.k = "other"
    THEN Raise("AttributeError", <<"object has no attribute 'lower'">>)
    ELSE LET priority_text ==
                 Lower(IF priority.k = "absent" THEN <<"m", "e", "d", "i", "u", "m">>
                       ELSE priority.s)
         IN  IF Contains(<<"h", "i", "g", "h">>, priority_text) THEN Ok("high")
             ELSE IF Contains(<<"l", "o", "w">>, priority_text) THEN Ok("low")
             ELSE Ok("medium")

\* task_data.get('category', 'general').lower()
MapCategory(category) ==
    IF category.k = "other"
    THEN Raise("AttributeError", <<"object has no attribute 'lower'">>)
    ELSE Ok(Lower(IF category.k = "absent"
                  THEN <<"g", "e", "n", "e", "r", "a", "l">> ELSE category.s))

\* CareTask(...): pydantic rejects a title that is not a string (its
\* ValidationError is a ValueError); status is TaskStatus.DRAFT.
CareTask(id, care_request_id, title, category, priority) ==
    IF title.k # "str"
    THEN Raise("ValueError", <<"validation error for CareTask: title">>)
    ELSE Ok([id |-> id, care_request_id |-> care_request_id, title |-> title.s,
             category |-> category, priority |-> priority, status |-> "draft"])

\* f"task_{uuid4().hex[:16]}": a fresh id, distinct for each request, stage and item.
FreshId(care_request_id, k, i) == <<care_request_id, k, i>>

\* next((t for t in previous if t.title.lower() == title.lower()), None)
RECURSIVE FirstMatch(_, _, _)
FirstMatch(previous, title, i) ==
    IF i > Len(previous) THEN None
    ELSE IF Lower(previous[i].title) = Lower(title) THEN Some(previous[i])
    ELSE FirstMatch(previous, title, i + 1)

\* The id of a parsed task in stages 3..5: the matching previous task's id, or a
\* fresh one.  title.lower() raises for a title that is no string as soon as
\* the generator evaluates it, that is when the previous list is not empty.
PreservedId(previous, title, care_request_id, k, i) ==
    IF title.k # "str"
    THEN IF previous # <<>>
         THEN Raise("AttributeError", <<"object has no attribute 'lower'">>)
         ELSE Ok(FreshId(care_request_id, k, i))
    ELSE LET existing_task == FirstMatch(previous, title.s, 1)
         IN  Ok(IF existing_task.some THEN existing_task.val.id
                ELSE FreshId(care_request_id, k, i))

\* One pass of the "for task_data in tasks_data" loop of stage k: skip, or build
\* the task (stage 2 mints an id, stages 3..5 preserve one by title).
TaskOf(task_data, previous, care_request_id, k, i) ==
    LET priority == MapPriority(task_data.priority)
        task_id == IF k = 2 THEN Ok(FreshId(care_request_id, k, i))
                   ELSE PreservedId(previous, task_data.title, care_request_id, k, i)
        category == MapCategory(task_data.category)
    IN  IF ~priority.ok THEN priority
        ELSE IF ~task_id.ok THEN task_id
        ELSE IF ~category.ok THEN category
        ELSE CareTask(task_id.val, care_request_id, task_data.title,
                      category.val, priority.val)

RECURSIVE TaskLoop(_, _, _, _, _, _)
TaskLoop(tasks_data, i, previous, care_request_id, k, tasks) ==
    IF i > Len(tasks_data) THEN Ok(tasks)
    ELSE IF tasks_data[i].k # "dict" \/ tasks_data[i].title.k = "absent"
    THEN TaskLoop(tasks_data, i + 1, previous, care_request_id, k, tasks)
    ELSE Local(TaskOf(tasks_data[i], previous, care_request_id, k, i),
               LAMBDA task :
                   IF ~task.ok THEN task
                   ELSE TaskLoop(tasks_data, i + 1, previous, care_request_id, k,
                                 Append(tasks, task.val)))

\* NeedsMap(...): summary defaults to '', identified_needs to {}; pydantic
\* rejects a summary that is no string and needs that are no object.
_parse_needs_map(text, care_request_id) ==
    Rewrap(1,
        Local(_extract_json(text),
              LAMBDA data :
                  IF ~data.ok THEN data
                  ELSE IF data.val.t # "dict"
                  THEN Raise("ValueError", <<"Expected JSON object, got list">>)
                  ELSE IF data.val.summary.k = "other"
                          \/ data.val.identified_needs = "other"
                  THEN Raise("ValueError", <<"validation error for NeedsMap">>)
                  ELSE Ok([care_request_id |-> care_request_id,
                           summary |-> data.val.summary.s])))

\* A faulty end of a task parser: the list is returned even when it is empty.
AnyTasks(tasks) == tasks

\* if tasks: return tasks; else: raise ValueError("No valid tasks found ...")
NonEmpty(tasks) ==
    IF ~tasks.ok THEN tasks
    ELSE IF tasks.val # <<>> THEN tasks
    ELSE Raise("ValueError", <<"No valid tasks found in JSON response">>)

\* A faulty stage 2 parser: it reads the 'tasks' member only, so a bare array
\* is refused.
_parse_tasks_object_only(text, care_request_id) ==
    Rewrap(2,
        Local(_extract_json(text),
              LAMBDA data :
                  IF ~data.ok THEN data
                  ELSE IF data.val.tasks.k # "list"
                  THEN Raise("ValueError", <<"Expected object with 'tasks' field">>)
                  ELSE IF Len(data.val.tasks.items) = 0 THEN Ok(<<>>)
                  ELSE Local(TaskLoop(data.val.tasks.items, 1, <<>>,
                                      care_request_id, 2, <<>>),
                             NonEmpty)))

\* Stage 2: a bare array or an object with 'tasks'; an empty array returns [].
_parse_tasks(text, care_request_id) ==
    Rewrap(2,
        Local(_extract_json(text),
              LAMBDA data :
                  IF ~data.ok THEN data
                  ELSE LET tasks_data == IF data.val.t = "list" THEN Array(data.val.items)
                                         ELSE data.val.tasks
                       IN  IF tasks_data.k = "absent"
                           THEN Raise("ValueError",
                                      <<"Expected JSON array or object with 'tasks' field, got dict">>)
                           ELSE IF tasks_data.k # "list"
                           THEN Raise("ValueError", <<"Expected array of tasks">>)
                           ELSE IF Len(tasks_data.items) = 0 THEN Ok(<<>>)
                           ELSE Local(TaskLoop(tasks_data.items, 1, <<>>,
                                               care_request_id, 2, <<>>),
                                      NonEmpty)))

\* Stages 3 and 4 (_parse_reviewed_tasks, _parse_optimized_tasks): an object
\* with a 'tasks' array; ids preserved by title against the previous list.
ParseRevisedTasks(k, text, previous, care_request_id) ==
    Rewrap(k,
        Local(_extract_json(text),
              LAMBDA data :
                  IF ~data.ok THEN data
                  ELSE IF data.val.t # "dict"
                  THEN Raise("ValueError",
                             <<"Expected JSON object with 'tasks' field, got list">>)
                  ELSE IF data.val.tasks.k = "absent"
                  THEN Raise("ValueError", <<"JSON object missing required 'tasks' field">>)
                  ELSE IF data.val.tasks.k # "list"
                  THEN Raise("ValueError", <<"Expected 'tasks' to be an array">>)
                  ELSE Local(TaskLoop(data.val.tasks.items, 1, previous,
                                      care_request_id, k, <<>>),
                             NonEmpty)))

_parse_reviewed_tasks(text, draft_tasks, care_request_id) ==
    ParseRevisedTasks(3, text, draft_tasks, care_request_id)

_parse_optimized_tasks(text, reviewed_tasks, care_request_id) ==
    ParseRevisedTasks(4, text, reviewed_tasks, care_request_id)

\* suggested = (data.get('suggested_plan_name') or '').strip(): None and ''
\* give '', another non-string has no strip().
SuggestedName(name) ==
    IF name.k = "other" THEN Raise("AttributeError", <<"object has no attribute 'strip'">>)
    ELSE Ok(Strip(name.s))

\* ReviewPacket(...): the model declares id, care_request_id, summary,
\* draft_tasks, agent_notes, approval_status and created_at; pydantic ignores a
\* keyword that is no declared field, so suggested_plan_name is not kept.
ReviewPacket(care_request_id, suggested_plan_name, summary, draft_tasks) ==
    IF summary.k = "other"
    THEN Raise("ValueError", <<"validation error for ReviewPacket: summary">>)
    ELSE Ok([care_request_id |-> care_request_id, summary |-> summary.s,
             draft_tasks |-> draft_tasks, agent_notes |-> <<>>,
             approval_status |-> "pending"])

\* A faulty selection: the parsed list is taken even when it is empty.
FinalTasksParsedOnly(parsed_tasks, optimized_tasks) == parsed_tasks

\* final_tasks = parsed_tasks if parsed_tasks else optimized_tasks
FinalTasks(parsed_tasks, optimized_tasks) ==
    IF parsed_tasks # <<>> THEN parsed_tasks ELSE optimized_tasks

\* Stage 5: an object; a 'draft_tasks' array that yields tasks replaces the
\* optimized tasks, otherwise they are kept.
_parse_review_packet(text, optimized_tasks, care_request_id) ==
    Rewrap(5,
        Local(_extract_json(text),
              LAMBDA data :
                  IF ~data.ok THEN data
                  ELSE IF data.val.t # "dict"
                  THEN Raise("ValueError", <<"Expected JSON object, got list">>)
                  ELSE Local(IF data.val.draft_tasks.k = "list"
                             THEN TaskLoop(data.val.draft_tasks.items, 1, optimized_tasks,
                                           care_request_id, 5, <<>>)
                             ELSE Ok(<<>>),
                             LAMBDA parsed_tasks :
                                 IF ~parsed_tasks.ok THEN parsed_tasks
                                 ELSE LET final_tasks ==
                                              FinalTasks(parsed_tasks.val, optimized_tasks)
                                          suggested ==
                                              SuggestedName(data.val.suggested_plan_name)
                                      IN  IF ~suggested.ok THEN suggested
                                          ELSE ReviewPacket(
                                                   care_request_id,
                                                   IF suggested.val # <<>>
                                                   THEN Some(suggested.val) ELSE None,
                                                   data.val.summary, final_tasks))))

\* ------------------------------------------------ the generative capability

\* What create_single_agent_crew(...) and crew.kickoff() can do in one stage:
\* raise, or return a raw text.
Raised(type, msg) ==
    [kind |-> "raise", exc |-> [type |-> type, msg |-> msg], text |-> <<>>]

Returned(text) ==
    [kind |-> "text", exc |-> [type |-> "none", msg |-> <<>>], text |-> text]

\* A response that is JSON and nothing else.
Direct(j) == <<Doc(j)>>

\* Prose around a ```json block holding j.
Fenced(j) == <<Words, Fence("json"), Doc(j), Fence(""), Words>>

\* Prose, then a block without language tag holding j.
Untagged(j) == <<Words, Fence(""), Doc(j), Fence("")>>

\* A text that starts like JSON but is none, with a ```json block that is no
\* JSON either and a bare ``` block holding j.
Recovered(j) == <<Junk, Fence("json"), Junk, Fence(""), Fence(""), Doc(j), Fence("")>>

\* Prose, then a block tagged with another language holding j.
Tagged(j) == <<Words, Fence("text"), Doc(j), Fence("")>>

\* A ```json block that holds no JSON, prose, then a ```json block holding j.
Second(j) == <<Fence("json"), Junk, Fence(""), Words, Fence("json"), Doc(j), Fence("")>>

\* Prose with no JSON in it ("not json at all").
Prose == <<Words>>

\* The generative call fails (network, rate limit; possibly without a message),
\* or create_agent / create_task finds no configuration for the stage's names.
Failures ==
    { Raised("Exception", <<>>), Raised("Exception", <<"rate limit exceeded">>),
      Raised("ValueError", <<"Agent configuration not found">>) }

ItemChoices ==
    { NotObj, TaskObj(Absent, Absent, Absent), TaskObj(Str(<<"R">>), Absent, Absent),
      TaskObj(Str(<<"r">>), Str(<<"H", "I", "G", "H">>), Absent),
      TaskObj(Str(<<"R">>), Other, Absent) }

RECURSIVE SeqsUpTo(_, _)
SeqsUpTo(S, n) ==
    IF n = 0 THEN { <<>> }
    ELSE LET shorter == SeqsUpTo(S, n - 1)
         IN  shorter \cup { Append(q, x) : q \in { r \in shorter : Len(r) = n - 1 }, x \in S }

ItemLists == SeqsUpTo(ItemChoices, MaxItems)

NameChoices == { Absent, Str(<<>>), Str(<<" ">>), Str(<<"P", " ">>), Other }

\* The JSON values a stage's response may hold in the detailed scenario.
JsonChoices(k) ==
    IF k = 1
    THEN { JList(<<>>) } \cup
         { JDict(NoArray, NoArray, sm, nd, Absent) :
             sm \in { Absent, Str(<<"s">>), Other }, nd \in { "absent", "dict", "other" } }
    ELSE IF k \in 2..4
    THEN { JList(items) : items \in ItemLists } \cup
         { JDict(Array(items), NoArray, Absent, "absent", Absent) : items \in ItemLists } \cup
         { JDict(NoArray, NoArray, Absent, "absent", Absent),
           JDict(NotArray, NoArray, Absent, "absent", Absent) }
    ELSE { JList(<<>>) } \cup
         { JDict(NoArray, dt, sm, "absent", nm) :
             dt \in { NoArray, NotArray } \cup { Array(items) : items \in ItemLists },
             sm \in { Str(<<"s">>), Other }, nm \in NameChoices }

\* One well-formed response per stage, for the scenarios about scheduling.
GoodJson(k) ==
    IF k = 1 THEN JDict(NoArray, NoArray, Str(<<"s">>), "dict", Absent)
    ELSE IF k = 2 THEN JList(<<TaskObj(Str(<<"R">>), Absent, Absent)>>)
    ELSE IF k \in 3..4
    THEN JDict(Array(<<TaskObj(Str(<<"R">>), Absent, Absent)>>), NoArray, Absent,
               "absent", Absent)
    ELSE JDict(NoArray, NoArray, Str(<<"s">>), "absent", Str(<<"P", " ">>))

\* Task items that differ by title: two titles equal but for case, another
\* title, and an empty one.
TitledItems ==
    { TaskObj(Str(<<"R">>), Absent, Absent),
      TaskObj(Str(<<"r">>), Str(<<"H", "I", "G", "H">>), Absent),
      TaskObj(Str(<<"W">>), Str(<<"l", "o", "w">>), Absent),
      TaskObj(Str(<<>>), Absent, Absent) }

TitledLists == SeqsUpTo(TitledItems, MaxItems)

\* The JSON values of the "titled" scenario: each stage's response has the
\* shape the stage asks for, and its task array is any list of titled items.
TitledJson(k) ==
    IF k = 1 THEN { GoodJson(1) }
    ELSE IF k = 2 THEN { JList(items) : items \in TitledLists }
    ELSE IF k \in 3..4
    THEN { JDict(Array(items), NoArray, Absent, "absent", Absent) : items \in TitledLists }
    ELSE { JDict(NoArray, dt, Str(<<"s">>), "absent", Absent) :
             dt \in { NoArray } \cup { Array(items) : items \in TitledLists } }

\* The outcomes of stage k's generative call, by the scenario's responses:
\* "detailed" is every failure, every JSON choice, direct or fenced, and a
\* good response in other layouts; "titled" is every titled JSON; "coarse"
\* is one failure, one unparsable text and one good response; "lean" is a good
\* response at every stage.
Outcomes(k, responses) ==
    IF responses = "detailed"
    THEN Failures \cup
         { Returned(Prose), Returned(Untagged(GoodJson(k))),
           Returned(Recovered(GoodJson(k))), Returned(Tagged(GoodJson(k))),
           Returned(Second(GoodJson(k))) } \cup
         { Returned(Direct(j)) : j \in JsonChoices(k) } \cup
         { Returned(Fenced(j)) : j \in JsonChoices(k) }
    ELSE IF responses = "titled"
    THEN { Returned(Direct(j)) : j \in TitledJson(k) }
    ELSE IF responses = "coarse"
    THEN { Raised("Exception", <<"rate limit exceeded">>), Returned(Prose),
           Returned(Direct(GoodJson(k))) }
    ELSE { Returned(Direct(GoodJson(k))) }

\* The surroundings a step depends on: the database behind the route's update,
\* the configuration files read when the orchestrator is built, the clock
\* behind the stage durations.
AllFaults == { "database", "configuration", "clock" }

\* What a progress callback that fails raises into run_pipeline_sync.
CallbackError == [type |-> "RuntimeError", msg |-> <<"progress callback failed">>]

\* What a step may meet: the normal case, and the faulty one where the scenario
\* has that fault.
Surroundings(faults, fault, normal, faulty) ==
    IF fault \in faults THEN { normal, faulty } ELSE { normal }

\* ------------------------------------------------------------------- state

VARIABLES
    scenario,        \* how many requests arrive, which responses the stages get,
                     \* and whether the surroundings may fail
    jobs,            \* JobRunner.jobs: job id -> Job
    care_requests,   \* the CareRequest objects (shared by route and Job): status
    db_requests,     \* the persisted care-request records: status
    orchestrator,    \* JobRunner._orchestrator: "unset" or "ready"
    loop,            \* the event loop: idle, or the handler holding it between awaits
    ready,           \* tasks made by asyncio.create_task, not yet started (FIFO)
    coro,            \* job id -> where its _execute_job coroutine stands
    work_queue,      \* the executor's queue of submitted pipeline runs (FIFO)
    future,          \* job id -> the run_in_executor future
    pipeline,        \* job id -> the locals of run_pipeline_sync
    events,          \* job id -> the calls of progress_callback so far, in order
    care_tasks,      \* the care_tasks table: task id -> row
    care_task_events,\* the care_task_events table: the rows in order of creation
    calls            \* the calls of TaskService methods: call id -> its locals

vars == <<scenario, jobs, care_requests, db_requests, orchestrator, loop, ready,
          coro, work_queue, future, pipeline, events, care_tasks, care_task_events,
          calls>>

\* What the Job Runner, the route and the pipeline never touch.
task_vars == <<care_tasks, care_task_events, calls>>

\* What TaskService never touches.
job_vars == <<scenario, jobs, care_requests, db_requests, orchestrator, loop, ready,
              coro, work_queue, future, pipeline, events>>

JobIds == DOMAIN jobs

Idle == [owner |-> "idle", job |-> 0]

\* A faulty pipeline: it goes on after a stage has raised.
ActiveAfterRaise == { j \in DOMAIN jobs : future[j].state \in { "running", "exception" } }

\* The jobs whose run_pipeline_sync is executing on a thread of the pool.
Active == { j \in JobIds : future[j].state = "running" }

\* A faulty pool: a thread that has run a pipeline never takes work again.
idle_threads_leaking ==
    max_workers - Cardinality({ j \in JobIds : future[j].state \notin { "none", "pending" } })

\* A faulty pool: it starts a thread for every run submitted to it.
idle_threads_unbounded == Cardinality(JobIds) + 1 - Cardinality(Active)

\* A faulty pool: the thread of a run that is blocked in a generative call
\* counts as free, as if the call had been given up.
idle_threads_reclaiming ==
    max_workers - Cardinality({ j \in DOMAIN jobs :
                                  future[j].state = "running" /\ ~pipeline[j].calling })

\* Threads of the pool that are free to take work: a thread is back in the pool
\* as soon as its call has returned or raised.
idle_threads == max_workers - Cardinality(Active)

\* JobRunner.get_job: self.jobs.get(job_id)
get_job(job_id) == IF job_id \in JobIds THEN Some(jobs[job_id]) ELSE None

\* d[key] = value on a Python dict
DictSet(d, key, value) == [x \in DOMAIN d \cup {key} |-> IF x = key THEN value ELSE d[x]]

EmptyDict == [x \in {} |-> ""]

\* A faulty Job(...): created as already running.
JobCreatedRunning(job_id, care_request_id) ==
    [id |-> job_id, care_request_id |-> care_request_id,
     care_request |-> Some(care_request_id), status |-> "running",
     current_agent |-> None, agent_progress |-> [x \in {} |-> ""], started_at |-> None,
     completed_at |-> None, error |-> None, result |-> None]

\* Job(id=..., status=JobStatus.QUEUED, current_agent=None, agent_progress={}, ...)
Job(job_id, care_request_id) ==
    [id |-> job_id, care_request_id |-> care_request_id,
     care_request |-> Some(care_request_id), status |-> "queued",
     current_agent |-> None, agent_progress |-> EmptyDict, started_at |-> None,
     completed_at |-> None, error |-> None, result |-> None]

\* The frame of run_pipeline_sync before stage A1.
NewPipeline ==
    [stage |-> 0, calling |-> FALSE, needs_map |-> None, tasks |-> <<>>,
     suggested |-> None, review_packet |-> None]

NoFuture == [state |-> "none"]

\* A faulty update_progress: the stage is recorded as completed whatever the
\* status reported.
update_progress_completed(job, agent_name, status) ==
    [job EXCEPT !.current_agent = Some(agent_name),
                !.agent_progress = DictSet(job.agent_progress, agent_name, "completed")]

\* def update_progress(agent_name, status)
update_progress(job, agent_name, status) ==
    [job EXCEPT !.current_agent = Some(agent_name),
                !.agent_progress = DictSet(job.agent_progress, agent_name, status)]

\* task.model_dump(): every field of the CareTask, the unset ones as None.
model_dump(task) ==
    [id |-> task.id, care_plan_id |-> None, care_request_id |-> task.care_request_id,
     title |-> task.title, category |-> task.category, priority |-> task.priority,
     status |-> task.status, claimed_by |-> None, claimed_at |-> None,
     completed_at |-> None]

\* job.result = {"review_packet_id": ..., "summary": ..., "task_count": ...,
\*               "tasks": [...], "agent_notes": ...}
JobResult(review_packet) ==
    [review_packet_id |-> <<"review", review_packet.care_request_id>>,
     summary |-> review_packet.summary,
     task_count |-> Len(review_packet.draft_tasks),
     tasks |-> [i \in 1..Len(review_packet.draft_tasks) |->
                   model_dump(review_packet.draft_tasks[i])],
     agent_notes |-> review_packet.agent_notes]

\* A faulty success path: the result is not stored.
CompletedJobNoResult(job, review_packet) ==
    [job EXCEPT !.status = "completed",
                !.current_agent = None,
                !.completed_at = Some("utcnow")]

\* A faulty success path: current_agent keeps the last stage reported.
CompletedJobKeepingAgent(job, review_packet) ==
    [job EXCEPT !.result = Some(JobResult(review_packet)),
                !.status = "completed",
                !.completed_at = Some("utcnow")]

\* The success path of _execute_job, after the await.
CompletedJob(job, review_packet) ==
    [job EXCEPT !.result = Some(JobResult(review_packet)),
                !.status = "completed",
                !.current_agent = None,
                !.completed_at = Some("utcnow")]

\* A faulty error message: str(e) alone.
ErrorMessageBare(exc) == exc.msg

\* error_msg = f"Job execution failed: {str(e)}"
ErrorMessage(exc) == <<"Job execution failed:">> \o exc.msg

\* A faulty except branch: the job is put back to queued, as for a retry.
FailedJobRequeued(job, exc) ==
    [job EXCEPT !.status = "queued",
                !.error = Some(<<"Job execution failed:">> \o exc.msg),
                !.current_agent = None]

\* A faulty except branch: the progress mapping is reset with the agent.
FailedJobCleared(job, exc) ==
    [job EXCEPT !.status = "failed",
                !.error = Some(<<"Job execution failed:">> \o exc.msg),
                !.current_agent = None,
                !.agent_progress = [x \in {} |-> ""],
                !.completed_at = Some("utcnow")]

\* The except branch of _execute_job.
FailedJob(job, exc) ==
    [job EXCEPT !.status = "failed",
                !.error = Some(ErrorMessage(exc)),
                !.current_agent = None,
                !.completed_at = Some("utcnow")]

\* One stage's _run_agent_aK_sync on the generative call's outcome: the frame
\* with the stage's artifact, or the exception that leaves the stage.  suggested
\* keeps the local of that name that _parse_review_packet computed.
RunAgent(k, outcome, frame, care_request_id) ==
    IF outcome.kind = "raise" THEN [ok |-> FALSE, exc |-> outcome.exc]
    ELSE IF k = 1
    THEN Local(_parse_needs_map(outcome.text, care_request_id),
               LAMBDA r : IF r.ok THEN Ok([frame EXCEPT !.needs_map = Some(r.val)]) ELSE r)
    ELSE IF k = 2
    THEN Local(_parse_tasks(outcome.text, care_request_id),
               LAMBDA r : IF r.ok THEN Ok([frame EXCEPT !.tasks = r.val]) ELSE r)
    ELSE IF k = 3
    THEN Local(_parse_reviewed_tasks(outcome.text, frame.tasks, care_request_id),
               LAMBDA r : IF r.ok THEN Ok([frame EXCEPT !.tasks = r.val]) ELSE r)
    ELSE IF k = 4
    THEN Local(_parse_optimized_tasks(outcome.text, frame.tasks, care_request_id),
               LAMBDA r : IF r.ok THEN Ok([frame EXCEPT !.tasks = r.val]) ELSE r)
    ELSE Local(_parse_review_packet(outcome.text, frame.tasks, care_request_id),
               LAMBDA r :
                   IF r.ok
                   THEN LET name == SuggestedName(_extract_json(outcome.text).val
                                                      .suggested_plan_name)
                        IN  Ok([frame EXCEPT
                                   !.review_packet = Some(r.val),
                                   !.suggested = IF name.val # <<>> THEN Some(name.val)
                                                 ELSE None])
                   ELSE r)

\* ----------------------------------------------------------------- actions

\* JobRunner() and the module's executor, before any request.
Started ==
    /\ jobs = EmptyDict
    /\ care_requests = EmptyDict
    /\ db_requests = EmptyDict
    /\ orchestrator = "unset"
    /\ loop = Idle
    /\ ready = <<>>
    /\ coro = EmptyDict
    /\ work_queue = <<>>
    /\ future = EmptyDict
    /\ pipeline = EmptyDict
    /\ events = EmptyDict
    /\ care_tasks = EmptyDict
    /\ care_task_events = <<>>
    /\ calls = EmptyDict

\* Several requests with coarse responses, or one request with detailed or
\* with titled ones.
Init ==
    /\ scenario \in { [jobs |-> MaxJobs, responses |-> "coarse", faults |-> AllFaults],
                      [jobs |-> 1, responses |-> "detailed", faults |-> AllFaults],
                      [jobs |-> 1, responses |-> "titled", faults |-> {}] }
    /\ Started

\* A faulty store: every second record gets the id of the one before.
RecordIdReused(n) == (n + 1) \div 2

\* care_request_record["id"]: the id the store gives the n-th record created.
RecordId(n) == n

\* POST /care-requests up to the return of enqueue_job: the record is created
\* with status submitted, the Job is stored as queued and its execution is
\* scheduled with asyncio.create_task.  enqueue_job has no await inside, so
\* the route keeps the event loop.
create_care_request ==
    /\ loop = Idle
    /\ Cardinality(JobIds) < scenario.jobs
    /\ LET job_id == Cardinality(JobIds) + 1
           care_request_id == RecordId(job_id)
       IN  /\ db_requests' = DictSet(db_requests, care_request_id, "submitted")
           /\ care_requests' = DictSet(care_requests, care_request_id, "submitted")
           /\ jobs' = DictSet(jobs, job_id, Job(job_id, care_request_id))
           /\ coro' = DictSet(coro, job_id, [at |-> "scheduled"])
           /\ future' = DictSet(future, job_id, NoFuture)
           /\ pipeline' = DictSet(pipeline, job_id, NewPipeline)
           /\ events' = DictSet(events, job_id, <<>>)
           /\ ready' = Append(ready, job_id)
           /\ loop' = [owner |-> "route", job |-> job_id]
    /\ UNCHANGED <<scenario, orchestrator, work_queue>>
    /\ UNCHANGED task_vars

\* The rest of the route: request_repo.update(..., PROCESSING), which may
\* raise, then care_request.status = PROCESSING, then the response.
mark_processing ==
    /\ loop.owner = "route"
    /\ \E updated \in Surroundings(scenario.faults, "database", TRUE, FALSE) :
          LET care_request_id == jobs[loop.job].care_request_id
          IN  IF updated
              THEN /\ db_requests' = [db_requests EXCEPT ![care_request_id] = "processing"]
                   /\ care_requests' = [care_requests EXCEPT ![care_request_id] = "processing"]
              ELSE UNCHANGED <<db_requests, care_requests>>
    /\ loop' = Idle
    /\ UNCHANGED <<scenario, jobs, orchestrator, ready, coro, work_queue, future,
                   pipeline, events>>
    /\ UNCHANGED task_vars

\* A faulty start of _execute_job: it also marks the care request processing.
execute_start_marking(j) ==
    /\ loop = Idle
    /\ ready # <<>> /\ j = Head(ready)
    /\ ready' = Tail(ready)
    /\ jobs' = [jobs EXCEPT ![j].status = "running", ![j].started_at = Some("utcnow")]
    /\ care_requests' = [care_requests EXCEPT ![jobs[j].care_request_id] = "processing"]
    /\ coro' = [coro EXCEPT ![j] = [at |-> "started"]]
    /\ loop' = [owner |-> "execute", job |-> j]
    /\ UNCHANGED <<scenario, db_requests, orchestrator, work_queue, future, pipeline,
                   events>>
    /\ UNCHANGED task_vars

\* _execute_job from its start to "execution started": the event loop runs the
\* oldest scheduled task; the Job is marked running.
execute_start(j) ==
    /\ loop = Idle
    /\ ready # <<>> /\ j = Head(ready)
    /\ ready' = Tail(ready)
    /\ jobs' = [jobs EXCEPT ![j].status = "running", ![j].started_at = Some("utcnow")]
    /\ coro' = [coro EXCEPT ![j] = [at |-> "started"]]
    /\ loop' = [owner |-> "execute", job |-> j]
    /\ UNCHANGED <<scenario, care_requests, db_requests, orchestrator, work_queue,
                   future, pipeline, events>>
    /\ UNCHANGED task_vars

\* _execute_job up to the await: the care request is read, the orchestrator is
\* built on first use (which may raise), and the pipeline is submitted to the
\* executor.
execute_submit(j) ==
    /\ loop = [owner |-> "execute", job |-> j]
    /\ coro[j].at = "started"
    /\ IF ~jobs[j].care_request.some
       THEN /\ coro' = [coro EXCEPT ![j] =
                           [at |-> "except",
                            exc |-> [type |-> "ValueError",
                                     msg |-> <<"No care request found for job">>]]]
            /\ UNCHANGED <<orchestrator, work_queue, future, loop>>
       ELSE \E built \in Surroundings(scenario.faults, "configuration", TRUE, FALSE) :
               IF orchestrator = "ready" \/ built
               THEN /\ orchestrator' = "ready"
                    /\ work_queue' = Append(work_queue, j)
                    /\ future' = [future EXCEPT ![j] = [state |-> "pending"]]
                    /\ coro' = [coro EXCEPT ![j] = [at |-> "await"]]
                    /\ loop' = Idle
               ELSE /\ coro' = [coro EXCEPT ![j] =
                                   [at |-> "except",
                                    exc |-> [type |-> "FileNotFoundError",
                                             msg |-> <<"Configuration file not found">>]]]
                    /\ UNCHANGED <<orchestrator, work_queue, future, loop>>
    /\ UNCHANGED <<scenario, jobs, care_requests, db_requests, ready, pipeline, events>>
    /\ UNCHANGED task_vars

\* An idle thread of the pool takes the oldest submitted run.
worker_start(j) ==
    /\ work_queue # <<>> /\ j = Head(work_queue)
    /\ idle_threads > 0
    /\ work_queue' = Tail(work_queue)
    /\ future' = [future EXCEPT ![j] = [state |-> "running"]]
    /\ UNCHANGED <<scenario, jobs, care_requests, db_requests, orchestrator, loop,
                   ready, coro, pipeline, events>>
    /\ UNCHANGED task_vars

\* run_pipeline_sync enters the next stage: progress_callback(Ak, "running"),
\* then the stage's generative call is under way.  The call of the callback
\* stands in the try block whose except clause re-raises: a callback that
\* raises (after its writes) ends run_pipeline_sync with its exception.
stage_begin(j) ==
    /\ j \in Active
    /\ ~pipeline[j].calling
    /\ pipeline[j].stage < NumStages
    /\ \E raised \in Surroundings(scenario.faults, "callback", FALSE, TRUE) :
          LET k == pipeline[j].stage + 1
          IN  /\ jobs' = [jobs EXCEPT
                             ![j] = update_progress(jobs[j], AgentLabel(k), "running")]
              /\ events' = [events EXCEPT ![j] = Append(@, <<AgentLabel(k), "running">>)]
              /\ pipeline' = [pipeline EXCEPT ![j].stage = k, ![j].calling = ~raised]
              /\ future' = IF raised
                           THEN [future EXCEPT
                                    ![j] = [state |-> "exception", exc |-> CallbackError]]
                           ELSE future
    /\ UNCHANGED <<scenario, care_requests, db_requests, orchestrator, loop, ready,
                   coro, work_queue>>
    /\ UNCHANGED task_vars

\* The generative call of the current stage ends: its text is parsed and
\* progress_callback(Ak, "completed") is called, or the exception leaves
\* run_pipeline_sync, becomes the future's exception and frees the worker
\* thread; so does the exception of a callback that raises.
stage_end(j) ==
    /\ j \in Active
    /\ pipeline[j].calling
    /\ \E outcome \in Outcomes(pipeline[j].stage, scenario.responses) :
       \E r \in { RunAgent(pipeline[j].stage, outcome, pipeline[j],
                           jobs[j].care_request_id) } :
       \E raised \in Surroundings(scenario.faults, "callback", FALSE, TRUE) :
          LET k == pipeline[j].stage
          IN  IF r.ok
              THEN /\ jobs' = [jobs EXCEPT
                                  ![j] = update_progress(jobs[j], AgentLabel(k), "completed")]
                   /\ events' = [events EXCEPT ![j] = Append(@, <<AgentLabel(k), "completed">>)]
                   /\ pipeline' = [pipeline EXCEPT ![j] = [r.val EXCEPT !.calling = FALSE]]
                   /\ future' = IF raised
                                THEN [future EXCEPT
                                         ![j] = [state |-> "exception", exc |-> CallbackError]]
                                ELSE future
              ELSE /\ pipeline' = [pipeline EXCEPT ![j].calling = FALSE]
                   /\ future' = [future EXCEPT ![j] = [state |-> "exception", exc |-> r.exc]]
                   /\ UNCHANGED <<jobs, events>>
    /\ UNCHANGED <<scenario, care_requests, db_requests, orchestrator, loop, ready,
                   coro, work_queue>>
    /\ UNCHANGED task_vars

\* run_pipeline_sync after progress_callback("A5", "completed"): the pipeline
\* metrics are computed and the review packet is returned.  evaluate_pipeline
\* divides by the sum of all recorded stage durations, which is 0.0 when the
\* clock gave every stage the same start and end instant; the ZeroDivisionError
\* then leaves run_pipeline_sync.  Either way the worker thread is free again.
pipeline_return(j) ==
    /\ j \in Active
    /\ ~pipeline[j].calling
    /\ pipeline[j].stage = NumStages
    /\ \E total_time \in Surroundings(scenario.faults, "clock", "positive", "zero") :
          future' = [future EXCEPT ![j] =
                        IF total_time = "zero"
                        THEN [state |-> "exception",
                              exc |-> [type |-> "ZeroDivisionError",
                                       msg |-> <<"float division by zero">>]]
                        ELSE [state |-> "result",
                              result |-> pipeline[j].review_packet.val]]
    /\ UNCHANGED <<scenario, jobs, care_requests, db_requests, orchestrator, loop,
                   ready, coro, work_queue, pipeline, events>>
    /\ UNCHANGED task_vars

\* _execute_job after the await returned the review packet: result, status
\* completed, and the care request completed.
execute_succeed(j) ==
    /\ loop = Idle
    /\ coro[j].at = "await"
    /\ future[j].state = "result"
    /\ jobs' = [jobs EXCEPT ![j] = CompletedJob(jobs[j], future[j].result)]
    /\ care_requests' = [care_requests EXCEPT ![jobs[j].care_request_id] = "completed"]
    /\ coro' = [coro EXCEPT ![j] = [at |-> "done"]]
    /\ UNCHANGED <<scenario, db_requests, orchestrator, loop, ready, work_queue,
                   future, pipeline, events>>
    /\ UNCHANGED task_vars

\* A faulty except branch: it resets every care request to submitted.
execute_fail_resetting(j) ==
    /\ \/ loop = [owner |-> "execute", job |-> j] /\ coro[j].at = "except"
       \/ loop = Idle /\ coro[j].at = "await" /\ future[j].state = "exception"
    /\ LET exc == IF coro[j].at = "except" THEN coro[j].exc ELSE future[j].exc
       IN  jobs' = [jobs EXCEPT ![j] = FailedJob(jobs[j], exc)]
    /\ care_requests' = [r \in DOMAIN care_requests |-> "submitted"]
    /\ coro' = [coro EXCEPT ![j] = [at |-> "done"]]
    /\ loop' = Idle
    /\ UNCHANGED <<scenario, db_requests, orchestrator, ready, work_queue, future,
                   pipeline, events>>
    /\ UNCHANGED task_vars

\* The except branch of _execute_job, for an exception raised before the await
\* or delivered by it: status failed, the error, and the care request reset to
\* submitted.
execute_fail(j) ==
    /\ \/ loop = [owner |-> "execute", job |-> j] /\ coro[j].at = "except"
       \/ loop = Idle /\ coro[j].at = "await" /\ future[j].state = "exception"
    /\ LET exc == IF coro[j].at = "except" THEN coro[j].exc ELSE future[j].exc
       IN  jobs' = [jobs EXCEPT ![j] = FailedJob(jobs[j], exc)]
    /\ care_requests' = [care_requests EXCEPT ![jobs[j].care_request_id] = "submitted"]
    /\ coro' = [coro EXCEPT ![j] = [at |-> "done"]]
    /\ loop' = Idle
    /\ UNCHANGED <<scenario, db_requests, orchestrator, ready, work_queue, future,
                   pipeline, events>>
    /\ UNCHANGED task_vars

Next ==
    \/ create_care_request
    \/ mark_processing
    \/ \E j \in JobIds : execute_start(j)
    \/ \E j \in JobIds : execute_submit(j)
    \/ \E j \in JobIds : worker_start(j)
    \/ \E j \in JobIds : stage_begin(j)
    \/ \E j \in JobIds : stage_end(j)
    \/ \E j \in JobIds : pipeline_return(j)
    \/ \E j \in JobIds : execute_succeed(j)
    \/ \E j \in JobIds : execute_fail(j)

Spec == Init /\ [][Next]_vars

\* ------------------------------------------------------- the pool under load

\* One request more than the pool has threads, so that a pipeline is submitted
\* while every thread is busy, with good responses and an orchestrator that may
\* fail to build; or a single request that may meet every failure.
PoolInit ==
    /\ scenario \in { [jobs |-> max_workers + 1, responses |-> "lean",
                       faults |-> { "configuration" }],
                      [jobs |-> 1, responses |-> "coarse", faults |-> AllFaults] }
    /\ Started

\* Every step of the runner and the pipelines; requests arrive as they please.
Work ==
    \/ mark_processing
    \/ \E j \in JobIds : execute_start(j)
    \/ \E j \in JobIds : execute_submit(j)
    \/ \E j \in JobIds : worker_start(j)
    \/ \E j \in JobIds : stage_begin(j)
    \/ \E j \in JobIds : pipeline_return(j)
    \/ \E j \in JobIds : execute_succeed(j)
    \/ \E j \in JobIds : execute_fail(j)
    \/ \E j \in JobIds : stage_end(j)

\* Fair scheduling: the event loop runs a handler that is ready, an idle pool
\* thread takes queued work, a running thread proceeds, and a generative call
\* returns or raises; so while some step of Work is possible one is taken.
PoolSpec == PoolInit /\ [][Next]_vars /\ WF_vars(Work)

\* ------------------------------------------- a progress callback that raises

\* run_pipeline_sync takes the callback its caller supplies.  Here the callback
\* does what the Job Runner's update_progress does and may then raise, at any
\* stage boundary; the responses are coarse and nothing else fails.
CallbackInit ==
    /\ scenario = [jobs |-> MaxJobs, responses |-> "coarse", faults |-> { "callback" }]
    /\ Started

CallbackSpec == CallbackInit /\ [][Next]_vars

\* --------------------------------------------------------- the task service

\* TaskService (app/services/task_service.py) over CareTaskRepository and
\* CareTaskEventRepository.  Every access to the database is a step of its own:
\* the database is shared by every call, and nothing in the service or the
\* repositories holds a row between a read and the write that follows it.

\* Calls of TaskService methods made in all.
MaxCalls == 3

\* The users: two members of the circle and the creator of the care plan.
Users == { "ann", "bob", "owner" }

\* The care_tasks rows present (one task of an approved plan) and an id that
\* no row has.
TaskIds == { 1 }

MissingId == 2

\* care_plans: plan id -> created_by
care_plans == [p \in { "plan" } |-> "owner"]

\* The text a caller gives as reason or outcome: blank or not.
Contents == { <<" ">>, <<"o", "k">> }

\* A care_tasks row of an approved plan, as approval leaves it.
AvailableTask ==
    [status |-> "available", claimed_by |-> None, claimed_at |-> None,
     completed_at |-> None, care_plan_id |-> "plan", updated_at |-> 0]

\* BaseRepository.get_by_id: result.data[0], or None when no row has the id.
get_by_id(table, record_id) ==
    IF record_id \in DOMAIN table THEN Some(table[record_id]) ELSE None

\* BaseRepository.update: the row with the updates applied and updated_at set
\* to the time of the write (counted in writes to the row).
update(table, record_id, updates) ==
    [table EXCEPT ![record_id] =
        [f \in DOMAIN @ |->
            IF f = "updated_at" THEN @.updated_at + 1
            ELSE IF f \in DOMAIN updates THEN updates[f] ELSE @[f]]]

\* The updates of CareTaskRepository.claim_task, release_task, complete_task
\* and reopen_task.
ClaimUpdates(call) ==
    [status |-> "claimed", claimed_by |-> Some(call.user), claimed_at |-> Some("utcnow")]

ReleaseUpdates(call) == [status |-> "available", claimed_by |-> None, claimed_at |-> None]

CompleteUpdates(call) == [status |-> "completed", completed_at |-> Some("utcnow")]

ReopenUpdates(call) ==
    [status |-> "claimed", completed_at |-> None, claimed_by |-> call.task.val.claimed_by,
     claimed_at |-> Some("utcnow")]

Updates(call) ==
    CASE call.op = "claim_task" -> ClaimUpdates(call)
      [] call.op = "release_task" -> ReleaseUpdates(call)
      [] call.op = "complete_task" -> CompleteUpdates(call)
      [] call.op = "reopen_task" -> ReopenUpdates(call)

\* TaskEventType of the diary entry a method writes.
EventType(op) ==
    CASE op = "release_task" -> "released"
      [] op = "complete_task" -> "completed"
      [] op = "reopen_task" -> "reopened"

\* TaskService._is_plan_creator
_is_plan_creator(plan_id, user_id) ==
    plan_id \in DOMAIN care_plans /\ care_plans[plan_id] = user_id

\* A call that goes on to its next access to the database, holding the row it
\* read; and a call that has ended: code 200 with the row it returns, or the
\* status code of the HTTPException it raised (500 for another exception).
Proceeds(op, user, task_id, task, at) ==
    [op |-> op, user |-> user, task_id |-> task_id, task |-> task, at |-> at,
     code |-> 0, returned |-> None]

Ended(call, code, returned) ==
    [call EXCEPT !.at = "done", !.code = code, !.returned = returned]

HTTPException(op, user, task_id, task, code) ==
    Ended(Proceeds(op, user, task_id, task, "done"), code, None)

\* The id of the next call.
NextCall == Cardinality(DOMAIN calls) + 1

\* TaskService.claim_task up to the repository's claim_task: the task is read
\* and must exist and be available.
claim_task(user, task_id) ==
    /\ NextCall <= MaxCalls
    /\ LET task == get_by_id(care_tasks, task_id)
       IN  calls' = DictSet(calls, NextCall,
                        IF ~task.some
                        THEN HTTPException("claim_task", user, task_id, task, 404)
                        ELSE IF task.val.status # "available"
                        THEN HTTPException("claim_task", user, task_id, task, 400)
                        ELSE Proceeds("claim_task", user, task_id, task, "repository"))
    /\ UNCHANGED <<care_tasks, care_task_events>>
    /\ UNCHANGED job_vars

\* CareTaskRepository.claim_task up to its update: the task is read again; None
\* is returned when it is not available, which the service turns into 409.
claim_task_check(c) ==
    /\ c \in DOMAIN calls
    /\ calls[c].at = "repository"
    /\ LET task == get_by_id(care_tasks, calls[c].task_id)
       IN  calls' = [calls EXCEPT ![c] =
                        IF ~task.some THEN Ended(@, 500, None)
                        ELSE IF task.val.status # "available" THEN Ended(@, 409, None)
                        ELSE [@ EXCEPT !.at = "update"]]
    /\ UNCHANGED <<care_tasks, care_task_events>>
    /\ UNCHANGED job_vars

\* TaskService.release_task up to create_event: the reason must not be blank,
\* the task must exist and be claimed by the caller.
release_task(user, task_id, reason) ==
    /\ NextCall <= MaxCalls
    /\ LET task == get_by_id(care_tasks, task_id)
       IN  calls' = DictSet(calls, NextCall,
                        IF Strip(reason) = <<>>
                        THEN HTTPException("release_task", user, task_id, None, 400)
                        ELSE IF ~task.some
                        THEN HTTPException("release_task", user, task_id, task, 404)
                        ELSE IF task.val.claimed_by # Some(user)
                        THEN HTTPException("release_task", user, task_id, task, 403)
                        ELSE Proceeds("release_task", user, task_id, task, "event"))
    /\ UNCHANGED <<care_tasks, care_task_events>>
    /\ UNCHANGED job_vars

\* TaskService.complete_task up to create_event: the outcome must not be blank,
\* the task must exist and be claimed by the caller.
complete_task(user, task_id, outcome) ==
    /\ NextCall <= MaxCalls
    /\ LET task == get_by_id(care_tasks, task_id)
       IN  calls' = DictSet(calls, NextCall,
                        IF Strip(outcome) = <<>>
                        THEN HTTPException("complete_task", user, task_id, None, 400)
                        ELSE IF ~task.some
                        THEN HTTPException("complete_task", user, task_id, task, 404)
                        ELSE IF task.val.claimed_by # Some(user)
                        THEN HTTPException("complete_task", user, task_id, task, 403)
                        ELSE Proceeds("complete_task", user, task_id, task, "event"))
    /\ UNCHANGED <<care_tasks, care_task_events>>
    /\ UNCHANGED job_vars

\* TaskService.reopen_task up to _is_plan_creator: the reason must not be
\* blank, the task must exist, be completed and have a previous owner.
reopen_task(user, task_id, reason) ==
    /\ NextCall <= MaxCalls
    /\ LET task == get_by_id(care_tasks, task_id)
       IN  calls' = DictSet(calls, NextCall,
                        IF Strip(reason) = <<>>
                        THEN HTTPException("reopen_task", user, task_id, None, 400)
                        ELSE IF ~task.some
                        THEN HTTPException("reopen_task", user, task_id, task, 404)
                        ELSE IF task.val.status # "completed"
                        THEN HTTPException("reopen_task", user, task_id, task, 400)
                        ELSE IF ~task.val.claimed_by.some
                        THEN HTTPException("reopen_task", user, task_id, task, 400)
                        ELSE Proceeds("reopen_task", user, task_id, task, "plan"))
    /\ UNCHANGED <<care_tasks, care_task_events>>
    /\ UNCHANGED job_vars

\* reopen_task's check of the plan's creator, read from care_plans.
reopen_task_check(c) ==
    /\ c \in DOMAIN calls
    /\ calls[c].at = "plan"
    /\ calls' = [calls EXCEPT ![c] =
                    IF ~_is_plan_creator(@.task.val.care_plan_id, @.user)
                    THEN Ended(@, 403, None)
                    ELSE [@ EXCEPT !.at = "event"]]
    /\ UNCHANGED <<care_tasks, care_task_events>>
    /\ UNCHANGED job_vars

\* CareTaskEventRepository.create_event: the diary entry of a release, a
\* completion or a reopening.
create_event(c) ==
    /\ c \in DOMAIN calls
    /\ calls[c].at = "event"
    /\ care_task_events' =
           Append(care_task_events,
                  [care_task_id |-> calls[c].task_id, event_type |-> EventType(calls[c].op),
                   created_by |-> calls[c].user])
    /\ calls' = [calls EXCEPT ![c].at = "update"]
    /\ UNCHANGED care_tasks
    /\ UNCHANGED job_vars

\* The update of CareTaskRepository.claim_task, release_task, complete_task or
\* reopen_task, by the task's id alone, and the return of the updated row.
repository_update(c) ==
    /\ c \in DOMAIN calls
    /\ calls[c].at = "update"
    /\ care_tasks' = update(care_tasks, calls[c].task_id, Updates(calls[c]))
    /\ calls' = [calls EXCEPT ![c] = Ended(@, 200, Some(care_tasks'[calls[c].task_id]))]
    /\ UNCHANGED care_task_events
    /\ UNCHANGED job_vars

\* One available task of an approved plan, no call yet, and no Job.
TaskInit ==
    /\ scenario = [jobs |-> 0, responses |-> "lean", faults |-> {}]
    /\ jobs = EmptyDict
    /\ care_requests = EmptyDict
    /\ db_requests = EmptyDict
    /\ orchestrator = "unset"
    /\ loop = Idle
    /\ ready = <<>>
    /\ coro = EmptyDict
    /\ work_queue = <<>>
    /\ future = EmptyDict
    /\ pipeline = EmptyDict
    /\ events = EmptyDict
    /\ care_tasks = [t \in TaskIds |-> AvailableTask]
    /\ care_task_events = <<>>
    /\ calls = EmptyDict

TaskNext ==
    \/ \E user \in Users, task_id \in TaskIds \cup { MissingId } : claim_task(user, task_id)
    \/ \E user \in Users, task_id \in TaskIds \cup { MissingId }, reason \in Contents :
          release_task(user, task_id, reason)
    \/ \E user \in Users, task_id \in TaskIds \cup { MissingId }, outcome \in Contents :
          complete_task(user, task_id, outcome)
    \/ \E user \in Users, task_id \in TaskIds \cup { MissingId }, reason \in Contents :
          reopen_task(user, task_id, reason)
    \/ \E c \in DOMAIN calls : claim_task_check(c)
    \/ \E c \in DOMAIN calls : reopen_task_check(c)
    \/ \E c \in DOMAIN calls : create_event(c)
    \/ \E c \in DOMAIN calls : repository_update(c)

TaskSpec == TaskInit /\ [][TaskNext]_vars

\* ------------------------------------------------------------------ claims

Terminal(j) == j \in JobIds /\ jobs[j].status \in { "completed", "failed" }

\* _execute_job has finished for job j.
Done(j) == j \in JobIds /\ coro[j].at = "done"

\* The exception that ended job j's execution came out of the orchestrator: out
\* of run_pipeline_sync, or out of building the orchestrator.
OrchestratorRaised(j) ==
    /\ Done(j)
    /\ \/ future[j].state = "exception"
       \/ future[j].state = "none"

\* C1: in every step, a Job that exists keeps existing, a new Job is queued,
\* and a status that changes moves queued -> running, running -> completed or
\* running -> failed; so nothing moves backward, running is never skipped, and
\* completed and failed are never left.
C1_StatusMoves ==
    [][ /\ JobIds \subseteq DOMAIN jobs'
        /\ \A j \in DOMAIN jobs' \ JobIds : jobs'[j].status = "queued"
        /\ \A j \in JobIds :
              \/ jobs'[j].status = jobs[j].status
              \/ <<jobs[j].status, jobs'[j].status>> \in
                     { <<"queued", "running">>, <<"running", "completed">>,
                       <<"running", "failed">> } ]_vars

\* One Job has gone all the way to completed and another to failed.
C1_Witness ==
    \E i, j \in JobIds : jobs[i].status = "completed" /\ jobs[j].status = "failed"

\* C2: when enqueue_job has returned (the route holds the event loop with the
\* Job in hand), the Job is queued, has no agent progress and no callback yet,
\* get_job of its id returns that Job, and its execution is still only
\* scheduled; and a Job's execution starts only in a step taken from a state
\* where the Job is already stored and no route holds the event loop.
C2_EnqueueReturnsQueued ==
    /\ [](loop.owner = "route" =>
              /\ get_job(loop.job) = Some(jobs[loop.job])
              /\ jobs[loop.job].id = loop.job
              /\ jobs[loop.job].status = "queued"
              /\ jobs[loop.job].agent_progress = EmptyDict
              /\ events[loop.job] = <<>>
              /\ coro[loop.job].at = "scheduled")
    /\ [][\A j \in DOMAIN jobs' :
              coro'[j].at # "scheduled" /\ (j \notin JobIds \/ coro[j].at = "scheduled")
                  => j \in JobIds /\ loop.owner # "route"]_vars

\* enqueue_job has just returned a queued Job while an earlier Job's pipeline is
\* in the middle of a generative call.
C2_Witness ==
    /\ loop.owner = "route"
    /\ jobs[loop.job].status = "queued"
    /\ \E i \in JobIds : i # loop.job /\ pipeline[i].calling

\* C3: once _execute_job has finished on an exception out of the orchestrator,
\* whatever its type and message, the Job is failed, its error is a non-empty
\* string and its CareRequest is submitted; and a Job whose pipeline raised is
\* running only while that exception still waits for the event loop.
C3_ExceptionFailsJob ==
    \A j \in JobIds :
        /\ OrchestratorRaised(j) =>
              /\ jobs[j].status = "failed"
              /\ jobs[j].error.some /\ jobs[j].error.val # <<>>
              /\ care_requests[jobs[j].care_request_id] = "submitted"
        /\ future[j].state = "exception" /\ jobs[j].status # "failed" =>
              /\ jobs[j].status = "running"
              /\ coro[j].at = "await"

\* A Job has failed on an exception that carries no message at all.
C3_Witness ==
    \E j \in JobIds :
        /\ OrchestratorRaised(j)
        /\ future[j].state = "exception" /\ future[j].exc.msg = <<>>
        /\ jobs[j].status = "failed"

\* C4: a completed Job's result holds a task list that is not empty, counted
\* by task_count, with every task in status draft, and the Job's CareRequest is
\* completed.
C4_CompletedHasDraftTasks ==
    \A j \in JobIds :
        jobs[j].status = "completed" =>
            /\ jobs[j].result.some
            /\ Len(jobs[j].result.val.tasks) > 0
            /\ jobs[j].result.val.task_count = Len(jobs[j].result.val.tasks)
            /\ \A i \in 1..Len(jobs[j].result.val.tasks) :
                  jobs[j].result.val.tasks[i].status = "draft"
            /\ care_requests[jobs[j].care_request_id] = "completed"

\* A completed Job whose result lists as many tasks as a response can carry.
C4_Witness ==
    \E j \in JobIds :
        /\ jobs[j].status = "completed"
        /\ events[j][4] = <<"A2", "completed">>
        /\ Len(jobs[j].result.val.tasks) = MaxItems

\* C5: a completed Job whose stage 5 response carried a non-empty suggested
\* plan name has that name in its result, next to the summary and the tasks.
C5_ResultCarriesPlanName ==
    \A j \in JobIds :
        jobs[j].status = "completed" /\ pipeline[j].suggested.some =>
            /\ jobs[j].result.some
            /\ { "summary", "tasks" } \subseteq DOMAIN jobs[j].result.val
            /\ "suggested_plan_name" \in DOMAIN jobs[j].result.val
            /\ jobs[j].result.val.suggested_plan_name = pipeline[j].suggested.val

\* Stage k of job j's pipeline raised: the last callback was (Ak, running) and
\* the run ended on an exception.
StageFailed(j, k) ==
    /\ future[j].state = "exception"
    /\ events[j] # <<>>
    /\ events[j][Len(events[j])] = <<AgentLabel(k), "running">>

\* C6: when stage k has failed and _execute_job has finished, the Job is failed
\* with a non-empty error, agent_progress has no "completed" entry for stage k
\* or a later one, every stage before k is "completed", and the CareRequest is
\* submitted.
C6_StageFailure ==
    \A j \in JobIds : \A k \in Stages :
        Done(j) /\ StageFailed(j, k) =>
            /\ jobs[j].status = "failed"
            /\ jobs[j].error.some /\ jobs[j].error.val # <<>>
            /\ \A i \in k..NumStages :
                  \/ AgentLabel(i) \notin DOMAIN jobs[j].agent_progress
                  \/ jobs[j].agent_progress[AgentLabel(i)] # "completed"
            /\ \A i \in 1..(k - 1) :
                  /\ AgentLabel(i) \in DOMAIN jobs[j].agent_progress
                  /\ jobs[j].agent_progress[AgentLabel(i)] = "completed"
            /\ care_requests[jobs[j].care_request_id] = "submitted"

\* A Job has failed because the response of stage 3 could not be parsed.
C6_Witness ==
    \E j \in JobIds :
        /\ Done(j) /\ StageFailed(j, 3)
        /\ future[j].exc.msg[1] = AgentTitle(3)
        /\ jobs[j].status = "failed"

\* C7: a Job has a result exactly when it is completed; and a run in which a
\* stage failed has produced no review packet and leaves the Job without result.
C7_ResultIffCompleted ==
    \A j \in JobIds :
        /\ jobs[j].result.some <=> jobs[j].status = "completed"
        /\ \A k \in Stages :
              StageFailed(j, k) =>
                  /\ ~pipeline[j].review_packet.some
                  /\ ~jobs[j].result.some

\* A Job has failed in a stage after tasks had been parsed, and has no result.
C7_Witness ==
    \E j \in JobIds : \E k \in Stages :
        /\ Done(j) /\ StageFailed(j, k)
        /\ pipeline[j].tasks # <<>>
        /\ ~jobs[j].result.some

\* (A1, running), (A1, completed), ..., (A5, running), (A5, completed)
PipelineEvents ==
    [i \in 1..(2 * NumStages) |->
        <<AgentLabel((i + 1) \div 2), IF i % 2 = 1 THEN "running" ELSE "completed">>]

\* C8: the callbacks of a Job are always a prefix of PipelineEvents, so each
\* stage is entered at most once and only after the stage before reported
\* completed; a stage past the first is entered with the needs map in hand and
\* the last callback comes with the review packet; and once the run has raised
\* or returned no further callback is made.
C8_SequentialStages ==
    /\ [](\A j \in JobIds :
              /\ Len(events[j]) <= 2 * NumStages
              /\ events[j] = SubSeq(PipelineEvents, 1, Len(events[j]))
              /\ Len(events[j]) > 2 => pipeline[j].needs_map.some
              /\ Len(events[j]) = 2 * NumStages <=> pipeline[j].review_packet.some)
    /\ [][\A j \in JobIds :
              future[j].state \in { "exception", "result" } => events'[j] = events[j]]_vars

\* A Job whose run raised in stage 2 has finished, and another Job made all ten
\* callbacks.
C8_Witness ==
    \E i, j \in JobIds :
        /\ Done(i) /\ StageFailed(i, 2)
        /\ Done(j) /\ Len(events[j]) = 2 * NumStages

\* C9: in every step the stage names in a Job's agent_progress stay, and an
\* entry that is "completed" stays "completed".
C9_ProgressOnlyGrows ==
    [][\A j \in JobIds :
           /\ DOMAIN jobs[j].agent_progress \subseteq DOMAIN jobs'[j].agent_progress
           /\ \A a \in DOMAIN jobs[j].agent_progress :
                 jobs[j].agent_progress[a] = "completed"
                     => jobs'[j].agent_progress[a] = "completed"]_vars

\* One Job is completed with all five stages recorded, another is failed with
\* its failing stage still recorded as running.
C9_Witness ==
    \E i, j \in JobIds :
        /\ jobs[i].status = "completed"
        /\ DOMAIN jobs[i].agent_progress = { AgentLabel(k) : k \in Stages }
        /\ jobs[j].status = "failed"
        /\ \E a \in DOMAIN jobs[j].agent_progress : jobs[j].agent_progress[a] = "running"

\* C10: under PoolSpec's fairness, from some point on every Job that was
\* enqueued is completed or failed.  Requests are finitely many and a terminal
\* status is never left, so this is each enqueued Job reaching a terminal
\* status, the Job submitted to a pool without idle thread included.
C10_EveryJobEnds == <>[](\A j \in JobIds : Terminal(j))

\* enqueue_job has just returned a Job while every thread of the pool is
\* running a pipeline.
C10_Witness ==
    /\ loop.owner = "route"
    /\ jobs[loop.job].status = "queued"
    /\ idle_threads = 0

\* C11: never more than max_workers Jobs have their pipeline executing on the
\* pool, a stage's generative call is in flight only for a Job that holds a
\* thread, and whenever the event loop is free and a request is still to
\* come, the route can enqueue it, whatever the pool is doing.
C11_PoolBound ==
    /\ Cardinality(Active) <= max_workers
    /\ \A j \in JobIds : pipeline[j].calling => j \in Active
    /\ loop = Idle /\ Cardinality(JobIds) < scenario.jobs => ENABLED create_care_request

\* Every thread of the pool runs a pipeline and one more Job has been enqueued
\* and has submitted its run, which waits in the executor's queue.
C11_Witness ==
    /\ Cardinality(Active) = max_workers
    /\ \A j \in Active : pipeline[j].calling
    /\ \E j \in JobIds : future[j].state = "pending" /\ work_queue = <<j>>

\* C12: a Job whose run waits in the executor's queue while every thread of
\* the pool is busy with another Job is stored and is reported as queued, not
\* as running.
C12_RunningHoldsSlot ==
    \A j \in JobIds :
        future[j].state = "pending" /\ idle_threads = 0 =>
            /\ get_job(j) = Some(jobs[j])
            /\ jobs[j].status = "queued"

\* The ids of a task list.
Ids(tasks) == { tasks[i].id : i \in 1..Len(tasks) }

\* The places of a task list whose title equals title, case ignored.
SameTitle(tasks, title) == { i \in 1..Len(tasks) : Lower(tasks[i].title) = Lower(title) }

\* Every task of new has the id of the first task of previous with the same
\* title, or, when there is none, an id that previous does not hold.
IdOfFirstMatch(previous, new) ==
    \A i \in 1..Len(new) :
        LET same == SameTitle(previous, new[i].title)
        IN  IF same = {} THEN new[i].id \notin Ids(previous)
            ELSE new[i].id = previous[CHOOSE x \in same : \A y \in same : x <= y].id

\* Job j's stage k (3, 4 or 5) ends well in this step.
StageParsed(j, k) ==
    /\ pipeline[j].stage = k /\ pipeline[j].calling
    /\ ~pipeline'[j].calling /\ future'[j].state = "running"

\* The task list stage 5 leaves: the review packet's.
PacketTasks(frame) == frame.review_packet.val.draft_tasks

\* C13: whenever stage 3, 4 or 5 has parsed a task list, each parsed task whose
\* title equals, case ignored, a title of the previous list has the id of the
\* first previous task with that title (so matching again gives the same id),
\* and a task whose title matches none has an id the previous list does not
\* hold; and, from any list stage 2 returned, whatever stages 3 to 5 are
\* answered, a stage 2 task whose title is in every later list has its stage 2
\* id on the review packet's tasks of that title.
C13_TaskIdentity ==
    /\ [](\A j \in JobIds :
              /\ scenario.responses = "titled"
              /\ j \in Active /\ pipeline[j].stage = 2 /\ ~pipeline[j].calling
              => \A o3 \in Outcomes(3, "titled"), o4 \in Outcomes(4, "titled"),
                    o5 \in Outcomes(5, "titled") :
                     LET id == jobs[j].care_request_id
                         f3 == RunAgent(3, o3, pipeline[j], id)
                         f4 == RunAgent(4, o4, f3.val, id)
                         f5 == RunAgent(5, o5, f4.val, id)
                     IN  f3.ok /\ f4.ok /\ f5.ok =>
                             \A i \in 1..Len(PacketTasks(f5.val)) :
                                 LET t == PacketTasks(f5.val)[i]
                                 IN  /\ SameTitle(f3.val.tasks, t.title) # {}
                                     /\ SameTitle(f4.val.tasks, t.title) # {}
                                     => \A x \in SameTitle(pipeline[j].tasks, t.title) :
                                            t.id = pipeline[j].tasks[x].id)
    /\ [][\A j \in JobIds :
              /\ \A k \in 3..4 : StageParsed(j, k) =>
                     IdOfFirstMatch(pipeline[j].tasks, pipeline'[j].tasks)
              /\ StageParsed(j, 5) =>
                     \/ PacketTasks(pipeline'[j]) = pipeline[j].tasks
                     \/ IdOfFirstMatch(pipeline[j].tasks, PacketTasks(pipeline'[j]))]_vars

\* The member of the JSON value data that stage k reads its task items from.
TasksData(k, data) ==
    IF k = 2 THEN (IF data.t = "list" THEN Array(data.items) ELSE data.tasks)
    ELSE IF k \in 3..4 THEN (IF data.t = "list" THEN NoArray ELSE data.tasks)
    ELSE (IF data.t = "list" THEN NoArray ELSE data.draft_tasks)

\* The task list stage k's result carries.
StageTasks(k, frame) == IF k = NumStages THEN PacketTasks(frame) ELSE frame.tasks

\* Job j is in stage k's generative call.
Calling(j, k) == j \in Active /\ pipeline[j].calling /\ pipeline[j].stage = k

\* The texts stage k's generative call may return.
Texts(k) == { o.text : o \in { x \in Outcomes(k, scenario.responses) : x.kind = "text" } }

\* What stage k does with text in job j's pipeline.
Answer(j, k, text) == RunAgent(k, Returned(text), pipeline[j], jobs[j].care_request_id)

\* A response in the shape stage k asks for, with a task array that is not
\* empty and holds only objects with a string title and no malformed category:
\* nothing but a priority can be wrong with it.
PriorityOnly(k, text) ==
    /\ _extract_json(text).ok
    /\ LET data == _extract_json(text).val
           tasks_data == TasksData(k, data)
       IN  /\ tasks_data.k = "list" /\ tasks_data.items # <<>>
           /\ \A i \in 1..Len(tasks_data.items) :
                  /\ tasks_data.items[i].k = "dict"
                  /\ tasks_data.items[i].title.k = "str"
                  /\ tasks_data.items[i].category.k # "other"
           /\ data.summary.k # "other" /\ data.suggested_plan_name.k # "other"

\* C14: whenever one of stages 2 to 5 is answered with a response in which
\* nothing but a priority can be wrong, the stage does not fail and every task
\* it returns has the priority the rule gives its item: "high" when the
\* priority holds "high", else "low" when it holds "low", else "medium", which
\* is also what an absent priority and one that is no string get.
C14_PriorityTotal ==
    \A j \in JobIds : \A k \in 2..NumStages :
        Calling(j, k) =>
            \A text \in Texts(k) :
                PriorityOnly(k, text) =>
                    LET r == Answer(j, k, text)
                        items == TasksData(k, _extract_json(text).val).items
                        RulePriority(priority) ==
                            LET value == IF priority.k = "str" THEN Lower(priority.s)
                                         ELSE <<>>
                            IN  IF Contains(<<"h", "i", "g", "h">>, value) THEN "high"
                                ELSE IF Contains(<<"l", "o", "w">>, value) THEN "low"
                                ELSE "medium"
                    IN  /\ r.ok
                        /\ Len(StageTasks(k, r.val)) = Len(items)
                        /\ \A i \in 1..Len(items) :
                               StageTasks(k, r.val)[i].priority =
                                   RulePriority(items[i].priority)

\* C15: every task of a review packet the pipeline produced, and so every task
\* of a completed Job's result, has a title that is not empty: an item with an
\* empty or missing title was dropped by the stage that parsed it.
C15_TitlesNotEmpty ==
    \A j \in JobIds :
        /\ pipeline[j].review_packet.some =>
               \A i \in 1..Len(PacketTasks(pipeline[j])) :
                   PacketTasks(pipeline[j])[i].title # <<>>
        /\ jobs[j].result.some =>
               \A i \in 1..Len(jobs[j].result.val.tasks) :
                   jobs[j].result.val.tasks[i].title # <<>>

\* The JSON values held by the fenced blocks of text: a document alone between
\* two lines of backticks, whatever tag the opening line has.
FencedJson(text) ==
    { text[i + 1].val : i \in { x \in 1..(Len(text) - 2) :
                                  /\ text[x].p = "fence" /\ text[x + 1].p = "doc"
                                  /\ text[x + 2].p = "fence" } }

\* C16: whatever text a stage's call returns, extraction gives the text's JSON
\* value when the text is one JSON document; otherwise, when the text has a
\* fenced block holding valid JSON, it gives the value of such a block;
\* otherwise it fails with an error that carries the start of the text.
C16_ExtractionOrder ==
    \A j \in JobIds : \A k \in Stages :
        Calling(j, k) =>
            \A text \in Texts(k) :
                LET r == _extract_json(text)
                IN  IF Len(text) = 1 /\ text[1].p = "doc" THEN r = Ok(text[1].val)
                    ELSE IF FencedJson(text) # {} THEN r.ok /\ r.val \in FencedJson(text)
                    ELSE /\ ~r.ok
                         /\ \E i \in 1..Len(r.exc.msg) : r.exc.msg[i] = "Got: text[:200]..."

\* The message msg names stage k and the shape stage k expects.
NamesStage(msg, k) ==
    /\ \E i \in 1..Len(msg) : msg[i] = AgentTitle(k)
    /\ \E i \in 1..Len(msg) : msg[i] = ExpectedShape(k)

\* C17: whenever stage k's call returns a text that the stage does not accept,
\* whatever is wrong with it, the exception that leaves the stage names stage k
\* and the shape it expects; and a Job that failed in stage k on an exception
\* that is not the generative call's own has an error that names stage k and
\* that shape.
C17_ErrorNamesStage ==
    \A j \in JobIds : \A k \in Stages :
        /\ Calling(j, k) =>
               \A text \in Texts(k) :
                   ~Answer(j, k, text).ok => NamesStage(Answer(j, k, text).exc.msg, k)
        /\ Done(j) /\ StageFailed(j, k) /\ future[j].exc \notin { o.exc : o \in Failures } =>
               jobs[j].error.some /\ NamesStage(jobs[j].error.val, k)

\* The Jobs of care request r.
JobsOf(r) == { j \in JobIds : jobs[j].care_request_id = r }

\* This step is the success or the failure step of _execute_job for a Job of r.
Finishes(r) == \E j \in JobsOf(r) : coro[j].at # "done" /\ coro'[j].at = "done"

\* This step is a step of _execute_job (start, submission, success or failure)
\* for a Job of r.
JobStep(r) == \E j \in JobsOf(r) : coro'[j] # coro[j]

\* C18 as stated: every step that changes the status of an enqueued care
\* request is a step of the Job Runner for a Job of that request.
C18_OnlyJobWritesStatus ==
    [][\A r \in DOMAIN care_requests :
           care_requests'[r] # care_requests[r] => JobStep(r)]_vars

\* C18 amended: a step that changes the status of an enqueued care request is
\* either the request-creation route, which sets processing after enqueue_job
\* returned and before the Job's execution has started, or the success or
\* failure step of the request's Job, which sets completed or submitted as
\* the Job ends completed or failed; the start of the Job leaves it alone.
C18_RouteThenJobWriteStatus ==
    [][\A r \in DOMAIN care_requests :
           care_requests'[r] # care_requests[r] =>
               \/ /\ loop.owner = "route" /\ loop.job \in JobsOf(r)
                  /\ coro[loop.job].at = "scheduled" /\ coro' = coro
                  /\ care_requests'[r] = "processing"
               \/ /\ Finishes(r)
                  /\ \A j \in JobsOf(r) :
                         care_requests'[r] = IF jobs'[j].status = "completed"
                                             THEN "completed" ELSE "submitted"]_vars

\* The route has marked a care request processing, in the record and on the
\* object, and the request's Job has then completed and marked the object.
C18_Witness ==
    \E j \in JobIds :
        /\ Done(j) /\ jobs[j].status = "completed"
        /\ db_requests[jobs[j].care_request_id] = "processing"
        /\ care_requests[jobs[j].care_request_id] = "completed"

BareArray(items) == Direct(JList(items))

TasksObject(items) == Direct(JDict(Array(items), NoArray, Absent, "absent", Absent))

\* The arrays stage k may be answered with in both layouts.
BothLayouts(k) ==
    { items \in ItemLists : { BareArray(items), TasksObject(items) } \subseteq Texts(k) }

\* What the claim compares of a task list: title, category and priority of
\* each task, in order (the ids are minted anew by each parse).
Normalized(tasks) ==
    [i \in 1..Len(tasks) |-> <<tasks[i].title, tasks[i].category, tasks[i].priority>>]

\* Stage k treats both layouts of items alike in job j: it accepts both with
\* the same normalized tasks, or fails on both with the same exception.
SameAnswer(j, k, items) ==
    LET bare == Answer(j, k, BareArray(items))
        keyed == Answer(j, k, TasksObject(items))
    IN  /\ bare.ok = keyed.ok
        /\ bare.ok => Normalized(bare.val.tasks) = Normalized(keyed.val.tasks)
        /\ ~bare.ok => bare.exc = keyed.exc

StageTwoReturned(j) ==
    /\ Len(events[j]) >= 4
    /\ events[j][4] = <<AgentLabel(2), "completed">>

\* C21: whenever stage 2 has returned, so whenever stage 3 is entered, the task
\* list it handed on is not empty: a response whose task array is empty, or
\* holds no usable item, makes stage 2 fail, and the Job then ends failed in
\* stage 2.
C21_StageTwoNeverEmpty ==
    \A j \in JobIds :
        /\ StageTwoReturned(j) => pipeline[j].tasks # <<>>
        /\ Calling(j, 3) => pipeline[j].tasks # <<>>
        /\ Calling(j, 2) =>
               \A text \in Texts(2) :
                   /\ _extract_json(text).ok
                   /\ TasksData(2, _extract_json(text).val).k = "list"
                   /\ \A i \in 1..Len(TasksData(2, _extract_json(text).val).items) :
                          \/ TasksData(2, _extract_json(text).val).items[i].k # "dict"
                          \/ TasksData(2, _extract_json(text).val).items[i].title.k = "absent"
                   => /\ ~Answer(j, 2, text).ok
                      /\ NamesStage(Answer(j, 2, text).exc.msg, 2)

\* The items of a task array that the loop of a stage does not skip: objects
\* with a 'title' member.
Usable(items) == SelectSeq(items, LAMBDA x : x.k = "dict" /\ x.title.k # "absent")

\* C22: whenever stage 5 is answered with a text holding JSON, a value that is
\* no object fails the stage with the stage's error; and when the stage
\* produces a review packet, its task list is the list parsed from
\* 'draft_tasks' (one task per usable item, in the items' order, with the
\* item's title) if 'draft_tasks' is an array with a usable item, and is the
\* stage 4 list itself (same tasks, ids and order) if 'draft_tasks' is absent,
\* no array, empty or without usable item.  A response with nothing malformed
\* in it does produce a review packet.
C22_StageFiveSelection ==
    \A j \in JobIds :
        Calling(j, 5) =>
            \A text \in Texts(5) :
                _extract_json(text).ok =>
                    LET data == _extract_json(text).val
                        r == Answer(j, 5, text)
                        usable == Usable(TasksData(5, data).items)
                    IN  /\ data.t # "dict" => ~r.ok /\ NamesStage(r.exc.msg, 5)
                        /\ r.ok /\ usable # <<>> =>
                               /\ Len(PacketTasks(r.val)) = Len(usable)
                               /\ \A i \in 1..Len(usable) :
                                      PacketTasks(r.val)[i].title = usable[i].title.s
                        /\ r.ok /\ usable = <<>> =>
                               PacketTasks(r.val) = pipeline[j].tasks
                        /\ /\ data.t = "dict"
                           /\ data.summary.k # "other" /\ data.suggested_plan_name.k # "other"
                           /\ \A i \in 1..Len(usable) :
                                  /\ usable[i].title.k = "str"
                                  /\ usable[i].priority.k # "other"
                                  /\ usable[i].category.k # "other"
                           => r.ok

\* A review packet has been produced whose task list is not the stage 4 list:
\* the tasks parsed from 'draft_tasks' replaced it.
C22_Witness ==
    \E j \in JobIds :
        /\ pipeline[j].review_packet.some
        /\ PacketTasks(pipeline[j]) # pipeline[j].tasks
        /\ Len(PacketTasks(pipeline[j])) < Len(pipeline[j].tasks)

\* C23: no run of the pipeline ends on the exception of its progress callback,
\* and no Job fails with it: the exception is caught where the callback is
\* called, and the remaining stages run.
C23_CallbackCannotAbort ==
    \A j \in JobIds :
        /\ future[j].state = "exception" => future[j].exc # CallbackError
        /\ jobs[j].status = "failed" => jobs[j].error.val # ErrorMessage(CallbackError)

\* The Jobs whose pipeline is inside a generative call that has not returned.
Stuck == { j \in JobIds : j \in Active /\ pipeline[j].calling }

\* The Jobs whose run has not been taken by a thread of the pool.
NotTaken == { j \in JobIds : future[j].state \in { "none", "pending" } }

\* C24: a Job whose generative call has not returned is running and holds a
\* thread of the pool, and in every step in which the call does not return
\* this stays so: nothing but the call's own return ends it.  While
\* max_workers Jobs are in such calls, a further request is still accepted when
\* the event loop is free, no thread takes another run, and no step in which
\* the calls stay as they are lets a Job whose run was not yet taken enter
\* stage A1, produce a callback or end completed or failed.
C24_StuckCallHoldsSlot ==
    /\ [](\A j \in Stuck : jobs[j].status = "running" /\ ~Terminal(j))
    /\ [](Cardinality(Stuck) = max_workers =>
              /\ idle_threads = 0
              /\ \A j \in JobIds : ~ENABLED worker_start(j)
              /\ \A j \in NotTaken : ~ENABLED stage_begin(j)
              /\ loop = Idle /\ Cardinality(JobIds) < scenario.jobs
                     => ENABLED create_care_request)
    /\ [][\A j \in Stuck :
              /\ pipeline'[j].calling =>
                     /\ j \in Active' /\ jobs'[j].status = "running"
                     /\ pipeline'[j].stage = pipeline[j].stage
              /\ ~pipeline'[j].calling => stage_end(j)]_vars
    /\ [][Cardinality(Stuck) = max_workers /\ Stuck \subseteq Stuck' =>
              \A j \in DOMAIN jobs' :
                  j \notin JobIds \/ (j \in NotTaken /\ ~Terminal(j)) =>
                      /\ j \in NotTaken'
                      /\ events'[j] = <<>>
                      /\ jobs'[j].status \in { "queued", "running" }]_vars

\* Every thread of the pool is inside a generative call, one of them in the
\* last stage, and a Job enqueued after them has been started and has submitted
\* its run, which no thread has taken.
C24_Witness ==
    /\ Cardinality(Stuck) = max_workers
    /\ \E i \in Stuck : pipeline[i].stage = NumStages
    /\ \E j \in NotTaken :
          /\ \A i \in Stuck : i < j
          /\ coro[j].at = "await" /\ jobs[j].status = "running" /\ events[j] = <<>>

\* Something of Job j changes in this step: its record, the place of its
\* _execute_job, its run or its callbacks, or the status of its care request
\* (on the object or in the record).  A Job created in this step counts.
Touched(j) ==
    \/ j \notin JobIds
    \/ jobs'[j] # jobs[j]
    \/ coro'[j] # coro[j] \/ future'[j] # future[j]
    \/ pipeline'[j] # pipeline[j] \/ events'[j] # events[j]
    \/ care_requests'[jobs[j].care_request_id] # care_requests[jobs[j].care_request_id]
    \/ db_requests'[jobs[j].care_request_id] # db_requests[jobs[j].care_request_id]

\* C25: every step touches at most one Job: when a step changes anything of a
\* Job (status, progress, result, error, its care request's status), every
\* other Job's record, run and callbacks and every other care request's status
\* are as before, whatever the other Jobs are doing.
C25_JobsIndependent ==
    [][\A i, j \in DOMAIN jobs' : Touched(i) /\ Touched(j) => i = j]_vars

\* A Job has failed and reset its care request to submitted while another
\* Job, in a generative call, still has its request processing.
C25_Witness ==
    \E i, j \in JobIds :
        /\ i # j
        /\ Calling(i, 2) /\ care_requests[jobs[i].care_request_id] = "processing"
        /\ Done(j) /\ jobs[j].status = "failed"
        /\ care_requests[jobs[j].care_request_id] = "submitted"

\* No two places of a task list hold the same id.
DistinctIds(tasks) ==
    \A x, y \in 1..Len(tasks) : tasks[x].id = tasks[y].id => x = y

\* C26: the task list a pipeline holds after any stage, the task list of every
\* review packet and the task list of every Job result have pairwise distinct
\* ids, whatever titles the stages' responses carry.
C26_TaskIdsDistinct ==
    \A j \in JobIds :
        /\ DistinctIds(pipeline[j].tasks)
        /\ pipeline[j].review_packet.some => DistinctIds(PacketTasks(pipeline[j]))
        /\ jobs[j].result.some => DistinctIds(jobs[j].result.val.tasks)

\* C27: in every state, for every Job that get_job returns: started_at is set
\* exactly when the status is not queued, completed_at exactly when it is
\* completed or failed, error exactly when it is failed; current_agent is null
\* when the status is queued, completed or failed, and while it is running
\* current_agent is null before the first callback and is afterwards the stage
\* of the latest callback.
C27_FieldsFollowStatus ==
    \A j \in JobIds :
        LET job == get_job(j).val
        IN  /\ get_job(j).some
            /\ job.started_at.some <=> job.status # "queued"
            /\ job.completed_at.some <=> job.status \in { "completed", "failed" }
            /\ job.error.some <=> job.status = "failed"
            /\ job.status \in { "queued", "completed", "failed" } => job.current_agent = None
            /\ job.status = "running" =>
                   job.current_agent =
                       IF events[j] = <<>> THEN None
                       ELSE Some(events[j][Len(events[j])][1])

\* A Job has failed in a stage and has no current agent, while another is
\* running with stage A3 as its current agent.
C27_Witness ==
    \E j, k \in JobIds :
        /\ jobs[j].status = "failed" /\ jobs[j].error.some
        /\ jobs[j].completed_at.some /\ jobs[j].current_agent = None
        /\ \E a \in DOMAIN jobs[j].agent_progress : jobs[j].agent_progress[a] = "running"
        /\ jobs[k].status = "running" /\ jobs[k].current_agent = Some(AgentLabel(3))

\* The persisted record of Job j's care request shows what the Job's end left
\* on the CareRequest object: completed after success, submitted after failure.
RecordFollowsJob(j) ==
    LET r == jobs[j].care_request_id
    IN  /\ db_requests[r] # "processing"
        /\ db_requests[r] = care_requests[r]
        /\ db_requests[r] = IF jobs[j].status = "completed" THEN "completed" ELSE "submitted"

\* C28: under PoolSpec's fairness, from some point on the persisted record of
\* every Job that is completed or failed follows the Job: a terminal status is
\* never left, so this is each such record eventually, and then for good,
\* showing completed or submitted instead of processing.
C28_RecordFollowsJob == <>[](\A j \in JobIds : Terminal(j) => RecordFollowsJob(j))

\* Call c is a claim_task call that has ended after finding, in the service's
\* read, the task available in the row version seen.
ClaimedFrom(c, seen) ==
    /\ calls[c].op = "claim_task" /\ calls[c].at = "done"
    /\ calls[c].task = Some(seen) /\ seen.status = "available"

\* C29: of two claim_task calls that found the same task available, in the same
\* version of its row, at most one returns the claimed task, whatever the order
\* of their reads and writes; the other ends with 400 (not available) or 409
\* (claimed by someone else); and as long as the row the winner was returned is
\* the current one, its claimed_by is the winner.
C29_OneClaimWins ==
    \A c1, c2 \in DOMAIN calls :
        /\ c1 # c2 /\ calls[c1].task_id = calls[c2].task_id
        /\ calls[c1].task.some
        /\ ClaimedFrom(c1, calls[c1].task.val) /\ ClaimedFrom(c2, calls[c1].task.val)
        /\ calls[c1].code = 200
        => /\ calls[c2].code \in { 400, 409 }
           /\ calls[c1].returned.val.claimed_by = Some(calls[c1].user)
           /\ care_tasks[calls[c1].task_id].updated_at = calls[c1].returned.val.updated_at
                  => care_tasks[calls[c1].task_id].claimed_by = Some(calls[c1].user)

\* Call c writes its update to care_tasks in this step.
Writes(c) == calls[c].at = "update" /\ calls'[c].at = "done"

\* C30: a release_task or complete_task call writes only to a task that is
\* claimed, by the caller; a task that is completed is written only by a
\* reopen_task call of the plan's creator, which makes it claimed; and in no
\* step does a completed task become available.
C30_LifecycleGuards ==
    [][/\ \A c \in DOMAIN calls :
              Writes(c) =>
                  LET row == care_tasks[calls[c].task_id]
                  IN  /\ calls[c].op \in { "release_task", "complete_task" } =>
                             /\ row.status = "claimed"
                             /\ row.claimed_by = Some(calls[c].user)
                      /\ row.status = "completed" =>
                             /\ calls[c].op = "reopen_task"
                             /\ _is_plan_creator(row.care_plan_id, calls[c].user)
                             /\ care_tasks'[calls[c].task_id].status = "claimed"
       /\ \A t \in DOMAIN care_tasks :
              care_tasks[t].status = "completed" => care_tasks'[t].status # "available"]_vars

====
